---- MODULE Spec2Model ----
(***************************************************************************)
(* Moving cost estimator: the Stage 2 cost calculators                     *)
(* (move.calculate_cost, main.calculate_move_cost), the fence-stripping    *)
(* JSON parse step they share with Stage 1, the pricing arithmetic, the    *)
(* Stage 1 extractor with its upload and polling loop, the two HTTP        *)
(* endpoints, and the session of the frontend.                             *)
(*                                                                         *)
(* Units.  Python floats are modelled in fixed point:                      *)
(*   money            in cents         (round(x, 2) lands on a cent)       *)
(*   hours, movers and every JSON number in tenths (round(x, 1))           *)
(*   volume           in cubic feet    (integers)                          *)
(*   distance         in hundredths of a km                                *)
(* Text is a sequence of one-character strings; an object key is one       *)
(* lexeme.                                                                 *)
(***************************************************************************)
EXTENDS Integers, Sequences, FiniteSets, TLC

VARIABLES inventory, move, calls_left, cur, prev, doc, raw_text, parsed,
          ext, session

vars ==
    <<inventory, move, calls_left, cur, prev, doc, raw_text, parsed,
      ext, session>>

(***************************************************************************)
(* Bounds of the model.                                                    *)
(***************************************************************************)
MaxFloor == 3
MaxStrLen == 3

(***************************************************************************)
(* PRICING_CONFIG, in the units above.                                     *)
(***************************************************************************)
labor_rate_per_hour == 35
truck_rates == [small |-> 7500, medium |-> 12000, large |-> 18000]
stairs_fee_per_floor == 2500
base_hours == 4
DefaultVolume == 500
fuel_cost_per_km == 50
packing_material_per_cubic_feet == 20
SmallVolume == 400
MoversVolume == 800
MediumVolume == 900
OtherPercent == 5

TruckTiers == {"small", "medium", "large"}

\* The characters of a truck tier, as a JSON string carries it.
TruckChars ==
    [small |-> <<"s", "m", "a", "l", "l">>,
     medium |-> <<"m", "e", "d", "i", "u", "m">>,
     large |-> <<"l", "a", "r", "g", "e">>]

(***************************************************************************)
(* Python's round(x, ndigits) on the exact quotient num/den, den > 0:      *)
(* to the nearest integer, a tie to the even neighbour.                    *)
(***************************************************************************)
Round(num, den) ==
    LET q == num \div den
        r == num % den
    IN  IF 2 * r < den THEN q
        ELSE IF 2 * r > den THEN q + 1
        ELSE IF q % 2 = 0 THEN q ELSE q + 1

(***************************************************************************)
(* Text helpers: str.strip, str.startswith, and element 1 of str.split on   *)
(* the fence.                                                              *)
(***************************************************************************)
\* The backtick character (the lexer of TLA+ has no literal for it).
Backtick == "BACKTICK"
Fence == <<Backtick, Backtick, Backtick>>
JsonTag == <<"j", "s", "o", "n">>
Quote == "\""
Spaces == {" ", "\n"}

StartsWith(s, p) == Len(s) >= Len(p) /\ SubSeq(s, 1, Len(p)) = p

Strip(s) ==
    LET idx == {i \in 1..Len(s) : s[i] \notin Spaces}
    IN  IF idx = {} THEN <<>>
        ELSE LET lo == CHOOSE i \in idx : \A j \in idx : i <= j
                 hi == CHOOSE i \in idx : \A j \in idx : i >= j
             IN  SubSeq(s, lo, hi)

\* The first position >= from where the fence occurs in s, or 0.
FindFence(s, from) ==
    LET hits == {i \in from..(Len(s) - 2) : SubSeq(s, i, i + 2) = Fence}
    IN  IF hits = {} THEN 0 ELSE CHOOSE i \in hits : \A j \in hits : i <= j

\* Element 1 of s.split(fence), for an s that holds the fence.
SplitSecond(s) ==
    LET a == FindFence(s, 1)
        b == FindFence(s, a + 3)
    IN  IF b = 0 THEN SubSeq(s, a + 3, Len(s)) ELSE SubSeq(s, a + 3, b - 1)

StripFence(text) ==
    LET result_text == Strip(text)
    IN  IF StartsWith(result_text, Fence)
        THEN LET inner == SplitSecond(result_text)
                 body == IF StartsWith(inner, JsonTag)
                         THEN SubSeq(inner, 5, Len(inner)) ELSE inner
             IN  Strip(body)
        ELSE result_text

(***************************************************************************)
(* JSON values.  A value is a record [t, n, s, o]: t is its type, n a      *)
(* number (tenths), s a string (characters) or the elements of an array,   *)
(* o the members of an object, each a record [k, t, n, s] whose value is a *)
(* number, a string or an array.  An array element is one lexeme: a label  *)
(* (a JSON string) or ItemText, the text of one well-formed item object.   *)
(* JErr stands for the JSONDecodeError of json.loads.                      *)
(***************************************************************************)
JNum(n) == [t |-> "num", n |-> n, s |-> <<>>, o |-> <<>>]
JStr(s) == [t |-> "str", n |-> 0, s |-> s, o |-> <<>>]
JObj(o) == [t |-> "obj", n |-> 0, s |-> <<>>, o |-> o]
JArr(elems) == [t |-> "arr", n |-> 0, s |-> elems, o |-> <<>>]
JErr == [t |-> "err", n |-> 0, s |-> <<>>, o |-> <<>>]

NumMember(k, n) == [k |-> k, t |-> "num", n |-> n, s |-> <<>>]
StrMember(k, s) == [k |-> k, t |-> "str", n |-> 0, s |-> s]
ArrMember(k, elems) == [k |-> k, t |-> "arr", n |-> 0, s |-> elems]

\* One item object of the inventory, name, quantity, size and category, as
\* one lexeme.
ItemText == "{item}"

Keys ==
    {"recommended_movers", "truck_type", "complexity_hours_add", "special_notes",
     "items", "total_volume_cubic_feet", "needs_special_handling"}

DigitChars == <<"0", "1", "2", "3", "4", "5", "6", "7", "8", "9">>
DigitSet == {DigitChars[i] : i \in 1..10}
DigitVal(c) == CHOOSE d \in 0..9 : DigitChars[d + 1] = c

(***************************************************************************)
(* json.dumps: the serialization of a value.                               *)
(***************************************************************************)
RECURSIVE Digits(_)
Digits(k) ==
    IF k < 10 THEN <<DigitChars[k + 1]>>
    ELSE Digits(k \div 10) \o <<DigitChars[(k % 10) + 1]>>

SerNum(n) ==
    LET a == IF n < 0 THEN -n ELSE n
    IN  (IF n < 0 THEN <<"-">> ELSE <<>>)
        \o Digits(a \div 10)
        \o (IF a % 10 = 0 THEN <<>> ELSE <<".", DigitChars[(a % 10) + 1]>>)

SerStr(s) == <<Quote>> \o s \o <<Quote>>

SerElem(e) == IF e = ItemText THEN <<e>> ELSE <<Quote, e, Quote>>

RECURSIVE SerElems(_)
SerElems(elems) ==
    IF elems = <<>> THEN <<>>
    ELSE SerElem(elems[1])
         \o (IF Len(elems) > 1 THEN <<",", " ">> ELSE <<>>)
         \o SerElems(Tail(elems))

SerArr(elems) == <<"[">> \o SerElems(elems) \o <<"]">>

SerScalar(m) ==
    IF m.t = "num" THEN SerNum(m.n)
    ELSE IF m.t = "arr" THEN SerArr(m.s) ELSE SerStr(m.s)

RECURSIVE SerMembers(_)
SerMembers(o) ==
    IF o = <<>> THEN <<>>
    ELSE <<o[1].k, ":", " ">> \o SerScalar(o[1])
         \o (IF Len(o) > 1 THEN <<",", " ">> ELSE <<>>)
         \o SerMembers(Tail(o))

Serialize(v) ==
    IF v.t = "obj" THEN <<"{">> \o SerMembers(v.o) \o <<"}">>
    ELSE SerScalar(v)

(***************************************************************************)
(* json.loads: the strict parse of a text, JErr when it is not JSON.       *)
(***************************************************************************)
RECURSIVE ValOfDigits(_)
ValOfDigits(ds) ==
    IF ds = <<>> THEN 0
    ELSE ValOfDigits(SubSeq(ds, 1, Len(ds) - 1)) * 10 + DigitVal(ds[Len(ds)])

AllDigits(ds) == ds # <<>> /\ \A i \in 1..Len(ds) : ds[i] \in DigitSet

\* An integer part: digits with no leading zero.
IsIntPart(ds) == AllDigits(ds) /\ (Len(ds) > 1 => ds[1] # "0")

\* The number a text spells, in tenths; JErr when it spells none.  One
\* fractional digit is the precision of the model.
LoadNum(txt) ==
    LET neg == txt # <<>> /\ txt[1] = "-"
        body == IF neg THEN Tail(txt) ELSE txt
        dots == {i \in 1..Len(body) : body[i] = "."}
    IN  IF dots = {}
        THEN IF IsIntPart(body)
             THEN JNum((IF neg THEN -1 ELSE 1) * ValOfDigits(body) * 10)
             ELSE JErr
        ELSE LET d == CHOOSE i \in dots : TRUE
                 ip == SubSeq(body, 1, d - 1)
                 fp == SubSeq(body, d + 1, Len(body))
             IN  IF Cardinality(dots) = 1 /\ IsIntPart(ip) /\ AllDigits(fp) /\ Len(fp) = 1
                 THEN JNum((IF neg THEN -1 ELSE 1)
                           * (ValOfDigits(ip) * 10 + DigitVal(fp[1])))
                 ELSE JErr

\* The string a text spells: a quote, characters other than a quote or a
\* line break, a quote.
LoadStr(txt) ==
    IF /\ Len(txt) >= 2
       /\ txt[1] = Quote
       /\ txt[Len(txt)] = Quote
       /\ \A i \in 2..(Len(txt) - 1) : txt[i] \notin {Quote, "\n"}
    THEN JStr(SubSeq(txt, 2, Len(txt) - 1))
    ELSE JErr

SkipWs(txt, i) ==
    LET rest == {j \in i..Len(txt) : txt[j] \notin Spaces}
    IN  IF rest = {} THEN Len(txt) + 1 ELSE CHOOSE j \in rest : \A k \in rest : j <= k

\* Where the value that starts at i ends: at its closing quote or bracket, or
\* at the last character of the run of number characters; 0 when there is no
\* value at i.
ScalarEnd(txt, i) ==
    IF i > Len(txt) THEN 0
    ELSE IF txt[i] = Quote
    THEN LET qs == {j \in (i + 1)..Len(txt) : txt[j] = Quote}
         IN  IF qs = {} THEN 0 ELSE CHOOSE j \in qs : \A k \in qs : j <= k
    ELSE IF txt[i] = "["
    THEN LET bs == {j \in (i + 1)..Len(txt) : txt[j] = "]"}
         IN  IF bs = {} THEN 0 ELSE CHOOSE j \in bs : \A k \in bs : j <= k
    ELSE LET NumChars == DigitSet \cup {"-", "."}
             stop == {j \in i..Len(txt) : txt[j] \notin NumChars}
             e == IF stop = {} THEN Len(txt)
                  ELSE (CHOOSE j \in stop : \A k \in stop : j <= k) - 1
         IN  IF e < i THEN 0 ELSE e

\* The elements of an array from position i on, after acc; the closing
\* bracket ends the text.
RECURSIVE LoadElems(_, _, _)
LoadElems(txt, i, acc) ==
    LET a == SkipWs(txt, i)
        is_item == a <= Len(txt) /\ txt[a] = ItemText
        is_label == /\ a + 2 <= Len(txt) /\ txt[a] = Quote /\ txt[a + 2] = Quote
                    /\ txt[a + 1] \notin {Quote, "\n", ItemText}
        e == IF is_item THEN a ELSE a + 2
        n == SkipWs(txt, e + 1)
    IN  IF ~(is_item \/ is_label) \/ n > Len(txt) THEN JErr
        ELSE LET elem == IF is_item THEN ItemText ELSE txt[a + 1]
             IN  IF txt[n] = "]" /\ n = Len(txt) THEN JArr(Append(acc, elem))
                 ELSE IF txt[n] = "," THEN LoadElems(txt, n + 1, Append(acc, elem))
                 ELSE JErr

\* The array a text spells.
LoadArr(txt) ==
    IF Len(txt) < 2 \/ txt[Len(txt)] # "]" THEN JErr
    ELSE IF SkipWs(txt, 2) = Len(txt) THEN JArr(<<>>)
    ELSE LoadElems(txt, 2, <<>>)

LoadScalar(txt) ==
    IF txt # <<>> /\ txt[1] = Quote THEN LoadStr(txt)
    ELSE IF txt # <<>> /\ txt[1] = "[" THEN LoadArr(txt)
    ELSE LoadNum(txt)

\* The members of an object from position i on, after acc; the closing brace
\* ends the text.
RECURSIVE LoadMembers(_, _, _)
LoadMembers(txt, i, acc) ==
    LET k == SkipWs(txt, i)
        c == SkipWs(txt, k + 1)
        a == SkipWs(txt, c + 1)
        e == ScalarEnd(txt, a)
        val == LoadScalar(SubSeq(txt, a, e))
        n == SkipWs(txt, e + 1)
    IN  IF \/ k > Len(txt) \/ txt[k] \notin Keys
           \/ c > Len(txt) \/ txt[c] # ":"
           \/ e = 0 \/ val.t = "err"
           \/ n > Len(txt)
        THEN JErr
        ELSE LET mem == [k |-> txt[k], t |-> val.t, n |-> val.n, s |-> val.s]
             IN  IF txt[n] = "}" /\ n = Len(txt) THEN JObj(Append(acc, mem))
                 ELSE IF txt[n] = "," THEN LoadMembers(txt, n + 1, Append(acc, mem))
                 ELSE JErr

JsonLoads(text) ==
    LET txt == Strip(text)
    IN  IF txt = <<>> THEN JErr
        ELSE IF txt[1] = "{"
        THEN IF SkipWs(txt, 2) = Len(txt) /\ txt[Len(txt)] = "}" THEN JObj(<<>>)
             ELSE LoadMembers(txt, 2, <<>>)
        ELSE LoadScalar(txt)

\* The parse step of both stages: strip a fence, then json.loads.
ParseResponse(text) == JsonLoads(StripFence(text))

\* dict access on a parsed object: the member with key k (the last one, when
\* the key repeats), or Absent.
HasKey(v, k) == \E i \in 1..Len(v.o) : v.o[i].k = k
Get(v, k) ==
    LET idx == {i \in 1..Len(v.o) : v.o[i].k = k}
    IN  v.o[CHOOSE i \in idx : \A j \in idx : i >= j]

(***************************************************************************)
(* Stage 2: the staffing recommendation and the pricing.                   *)
(***************************************************************************)
\* inventory.get of total_volume_cubic_feet, 500 by default
VolumeOf(inv) == IF inv.has_volume THEN inv.volume ELSE DefaultVolume

\* len(inventory.get of needs_special_handling, [] by default)
SpecialCount(inv) == IF inv.has_special THEN Len(inv.special) ELSE 0

\* Mutant: the thresholds taken inclusive.
FallbackMovers_Inclusive(volume) ==
    IF volume <= SmallVolume THEN 2 ELSE IF volume <= MoversVolume THEN 3 ELSE 4

FallbackMovers(volume) ==
    IF volume < SmallVolume THEN 2 ELSE IF volume < MoversVolume THEN 3 ELSE 4

\* Mutant: the truck tiers cut at the movers threshold, 800.
FallbackTruck_MoversThreshold(volume) ==
    IF volume < SmallVolume THEN "small"
    ELSE IF volume < MoversVolume THEN "medium" ELSE "large"

FallbackTruck(volume) ==
    IF volume < SmallVolume THEN "small"
    ELSE IF volume < MediumVolume THEN "medium" ELSE "large"

\* The except branch: the staffing by simple rules.
FallbackEstimate(inv) ==
    JObj(<<NumMember("recommended_movers", FallbackMovers(VolumeOf(inv)) * 10),
           StrMember("truck_type", TruckChars[FallbackTruck(VolumeOf(inv))]),
           NumMember("complexity_hours_add", SpecialCount(inv) * 5),
           StrMember("special_notes", <<>>)>>)

\* Mutant: only a raising call falls back; text that is not JSON is priced as
\* it is.
Staffing_NoParseFallback(inv, outcome) ==
    LET loaded == ParseResponse(outcome.text)
    IN  IF outcome.kind = "raise"
        THEN [path |-> "fallback", ai |-> FallbackEstimate(inv)]
        ELSE [path |-> "inference", ai |-> loaded]

\* The try block: one inference call, its text stripped and parsed; the
\* fallback when the call raises or json.loads does.
Staffing(inv, outcome) ==
    LET loaded == ParseResponse(outcome.text)
    IN  IF outcome.kind = "raise" \/ loaded.t = "err"
        THEN [path |-> "fallback", ai |-> FallbackEstimate(inv)]
        ELSE [path |-> "inference", ai |-> loaded]

\* Mutant: hidden state, the hours of the call before are carried over.
EstimatedHours_Accumulating(volume, complexity) ==
    Round(base_hours * 200 + volume + 20 * complexity, 20)
    + (IF cur.impl = "none" THEN 0 ELSE 10)

EstimatedHours(volume, complexity) ==
    Round(base_hours * 200 + volume + 20 * complexity, 20)

LaborCost(movers, hours) == Round(movers * hours * labor_rate_per_hour, 1)

IsTier(chars) == \E tier \in TruckTiers : TruckChars[tier] = chars

TruckBase(chars) == truck_rates[CHOOSE tier \in TruckTiers : TruckChars[tier] = chars]

FuelCost(distance_km) == Round(distance_km * fuel_cost_per_km, 100)

\* Mutant: the destination side asks for the elevator of the origin.
StairsFee_OriginElevator(m) ==
    LET o == IF ~m.has_elevator_origin /\ m.origin_floor > 1
             THEN m.origin_floor - 1 ELSE 0
        d == IF ~m.has_elevator_origin /\ m.destination_floor > 1
             THEN m.destination_floor - 1 ELSE 0
    IN  (o + d) * stairs_fee_per_floor

StairsFee(m) ==
    LET o == IF ~m.has_elevator_origin /\ m.origin_floor > 1
             THEN m.origin_floor - 1 ELSE 0
        d == IF ~m.has_elevator_destination /\ m.destination_floor > 1
             THEN m.destination_floor - 1 ELSE 0
    IN  (o + d) * stairs_fee_per_floor

MaterialsCost(volume) == Round(volume * packing_material_per_cubic_feet, 1)

\* Requests whose 5% fee falls on a half cent that no binary float holds and
\* whose float product lies on the other side of it than half-even rounding
\* takes.  move.py adds labor + truck base + fuel from left to right, main.py
\* adds truck base + fuel first: the two float sums differ in the last bit.
\*   move: (-294.0 + 120) + 96.3 = -77.7,   and -77.7 * 0.05 is below -3.885
\*   main: -294.0 + (75 + 96.3) = -122.69999999999999, the product above -6.135
BelowHalfCent == {<<-29400, 12000, 9630>>}

AboveHalfCentMain == {<<-29400, 17130>>}

\* Mutant: the 5% taken of labor alone.
OtherFees_LaborOnly(labor, truck_base, fuel) == Round(labor * OtherPercent, 100)

\* move.calculate_cost: 5% of labor + truck base + fuel, added in that order
OtherFees(labor, truck_base, fuel) ==
    IF <<labor, truck_base, fuel>> \in BelowHalfCent
    THEN ((labor + truck_base + fuel) * OtherPercent) \div 100
    ELSE Round((labor + truck_base + fuel) * OtherPercent, 100)

\* main.calculate_move_cost: 5% of labor + truck_total, the truck base and
\* the fuel added first
OtherFeesMain(labor, truck_total) ==
    IF <<labor, truck_total>> \in AboveHalfCentMain
    THEN (((labor + truck_total) * OtherPercent) \div 100) + 1
    ELSE Round((labor + truck_total) * OtherPercent, 100)

\* Mutant: the stairs fee left out of the total.
TotalCost_NoStairs(labor, truck_base, fuel, stairs_fee, materials, other) ==
    Round(labor + truck_base + fuel + materials + other, 1)

TotalCost(labor, truck_base, fuel, stairs_fee, materials, other) ==
    Round(labor + truck_base + fuel + stairs_fee + materials + other, 1)

TotalCostMain(labor, truck_total, stairs_fee, materials, other) ==
    Round(labor + truck_total + stairs_fee + materials + other, 1)

CostMin(total_cost) == Round(total_cost * 9, 10)
CostMax(total_cost) == Round(total_cost * 11, 10)

NoEstimate ==
    [total_cost |-> 0, cost_min |-> 0, cost_max |-> 0, movers_needed |-> 0,
     truck_type |-> <<>>, estimated_hours |-> 0, labor |-> 0, truck |-> 0,
     fuel |-> 0, materials |-> 0, stairs_fee |-> 0, other |-> 0,
     special_notes |-> <<>>]

Raised(err, done) ==
    [status |-> "raised", error |-> err, computed |-> done, estimate |-> NoEstimate]

\* The statements after the try block, in their order, for the calculator
\* impl ("move" or "main"): the exception a statement raises ends the call.
Pricing(impl, inv, m, ai) ==
    IF ai.t # "obj" THEN Raised("TypeError", {})
    ELSE IF ~HasKey(ai, "recommended_movers") THEN Raised("KeyError", {})
    ELSE IF ~HasKey(ai, "truck_type") THEN Raised("KeyError", {})
    ELSE
    LET volume == VolumeOf(inv)
        movers == Get(ai, "recommended_movers")
        truck_type == Get(ai, "truck_type")
        has_c == HasKey(ai, "complexity_hours_add")
    IN  IF has_c /\ Get(ai, "complexity_hours_add").t # "num"
        THEN Raised("TypeError", {})
        ELSE
        LET complexity == IF has_c THEN Get(ai, "complexity_hours_add").n ELSE 0
            estimated_hours == EstimatedHours(volume, complexity)
        IN  IF movers.t # "num" THEN Raised("TypeError", {"estimated_hours"})
            ELSE IF truck_type.t # "str" \/ ~IsTier(truck_type.s)
            THEN Raised("KeyError", {"estimated_hours", "labor"})
            ELSE
            LET labor == LaborCost(movers.n, estimated_hours)
                truck_base == TruckBase(truck_type.s)
                fuel == FuelCost(m.distance_km)
                stairs_fee == StairsFee(m)
                materials == MaterialsCost(volume)
                other == IF impl = "move" THEN OtherFees(labor, truck_base, fuel)
                         ELSE OtherFeesMain(labor, truck_base + fuel)
                total == IF impl = "move"
                         THEN TotalCost(labor, truck_base, fuel, stairs_fee, materials, other)
                         ELSE TotalCostMain(labor, truck_base + fuel, stairs_fee, materials, other)
                notes == IF HasKey(ai, "special_notes")
                         THEN Get(ai, "special_notes").s ELSE <<>>
            IN  [status |-> "returned", error |-> "none",
                 computed |-> {"estimated_hours", "labor", "truck", "fuel",
                               "stairs_fee", "materials", "other", "total_cost"},
                 estimate |->
                    [total_cost |-> total, cost_min |-> CostMin(total),
                     cost_max |-> CostMax(total), movers_needed |-> movers.n,
                     truck_type |-> truck_type.s, estimated_hours |-> estimated_hours,
                     labor |-> labor, truck |-> truck_base, fuel |-> fuel,
                     materials |-> materials, stairs_fee |-> stairs_fee,
                     other |-> other, special_notes |-> notes]]

(***************************************************************************)
(* The inputs the model draws: inventories, move parameters, and what the  *)
(* inference service answers.                                              *)
(***************************************************************************)
Volumes == {-2000, 399, 400, 800, 850, 900}
SpecialLists == {<<"piano">>, <<"piano", "large_wardrobe">>}
Distances == {1250, 4500}
Floors == 0..MaxFloor

Inventories ==
    {[has_volume |-> TRUE, volume |-> v, has_special |-> TRUE, special |-> sp] :
        v \in Volumes, sp \in SpecialLists}
    \cup {[has_volume |-> TRUE, volume |-> v, has_special |-> FALSE, special |-> <<>>] :
        v \in Volumes}
    \cup {[has_volume |-> FALSE, volume |-> 0, has_special |-> TRUE, special |-> sp] :
        sp \in SpecialLists}

MoveParameters ==
    [distance_km : Distances, origin_floor : Floors, destination_floor : Floors,
     has_elevator_origin : BOOLEAN, has_elevator_destination : BOOLEAN]

FenceWrap(tag, body) == Fence \o tag \o <<"\n">> \o body \o <<"\n">> \o Fence

Staff(movers, truck, complexity, notes) ==
    JObj(<<NumMember("recommended_movers", movers), StrMember("truck_type", truck),
           NumMember("complexity_hours_add", complexity),
           StrMember("special_notes", notes)>>)

\* What the service may answer with, as JSON values.
AiDocs ==
    {Staff(30, TruckChars["medium"], 15, <<"a">>),
     Staff(30, TruckChars["medium"], 15, Fence),
     Staff(30, <<"x", "l">>, 15, <<>>),
     Staff(70, TruckChars["large"], -250, <<>>),
     JObj(<<StrMember("recommended_movers", <<"3">>), StrMember("truck_type", <<"x", "l">>)>>),
     JObj(<<StrMember("truck_type", TruckChars["medium"]), NumMember("complexity_hours_add", 0)>>),
     JObj(<<NumMember("recommended_movers", 20)>>),
     JObj(<<NumMember("recommended_movers", 20), StrMember("truck_type", TruckChars["small"])>>),
     JNum(30)}

FencedDocs ==
    {Staff(30, TruckChars["medium"], 15, <<"a">>),
     Staff(30, TruckChars["medium"], 15, Fence)}

NotJson == <<"n", "o", "t", " ", "j", "s", "o", "n">>

Outcomes ==
    {[kind |-> "raise", text |-> <<>>]}
    \cup {[kind |-> "text", text |-> Serialize(d)] : d \in AiDocs}
    \cup {[kind |-> "text", text |-> FenceWrap(JsonTag, Serialize(d))] : d \in FencedDocs}
    \cup {[kind |-> "text", text |-> NotJson]}

(***************************************************************************)
(* State.  inventory and move are the arguments of the calls; cur is the   *)
(* last finished call of an estimator and prev the one before it.  doc,    *)
(* raw_text and parsed are the parser on its own: a JSON value, a text     *)
(* that carries it, and what the parse step makes of the text.             *)
(***************************************************************************)
NoOutcome == [kind |-> "none", text |-> <<>>]

NoInventory == [has_volume |-> FALSE, volume |-> 0, has_special |-> FALSE, special |-> <<>>]

NoMove ==
    [distance_km |-> 0, origin_floor |-> 0, destination_floor |-> 0,
     has_elevator_origin |-> FALSE, has_elevator_destination |-> FALSE]

NoCall ==
    [impl |-> "none", inv |-> NoInventory, mv |-> NoMove, outcome |-> NoOutcome,
     path |-> "none", ai |-> JErr, status |-> "none", error |-> "none",
     computed |-> {}, estimate |-> NoEstimate]

\* One whole call of the calculator impl when the service answers outcome.
Call(impl, inv, m, outcome) ==
    LET st == Staffing(inv, outcome)
        pr == Pricing(impl, inv, m, st.ai)
    IN  [impl |-> impl, inv |-> inv, mv |-> m, outcome |-> outcome,
         path |-> st.path, ai |-> st.ai, status |-> pr.status, error |-> pr.error,
         computed |-> pr.computed, estimate |-> pr.estimate]

NoText == <<"none">>

\* Left out of the requests: volume 850 at 45 km.  There the 5% fee of the
\* fallback staffing falls on half a cent, and the float product decides the
\* cent by its binary error, which fixed point does not carry.
OnHalfCent(inv, m) == inv.has_volume /\ inv.volume = 850 /\ m.distance_km = 4500

NotParsed == [done |-> FALSE, value |-> JErr]

\* No half-cent tie is priced: the side of the float is of no account.

\* No request to the service, no run of the extractor.
NoRun ==
    [entry |-> "none", has_file |-> FALSE, has_url |-> FALSE, missing |-> "none",
     size |-> "none", source |-> "none", pc |-> "done", asset |-> "none",
     attached |-> "none", requests |-> 0, text |-> NoText, temp |-> "none",
     failed |-> "none", outcome |-> "none", status |-> 0, result |-> JErr]

\* The frontend session as the first run of the script leaves it.
NoSession ==
    [has_inventory |-> FALSE, inventory |-> JErr, has_cost |-> FALSE,
     cost_estimate |-> NoEstimate, cost_of |-> JErr, stage |-> 1, last |-> "none"]

\* One request, priced once.
Init ==
    /\ inventory \in Inventories
    /\ move \in MoveParameters
    /\ ~OnHalfCent(inventory, move)
    /\ calls_left = 1
    /\ cur = NoCall
    /\ prev = NoCall
    /\ doc = JErr
    /\ raw_text = NoText
    /\ parsed = NotParsed
    /\ ext = NoRun
    /\ session = NoSession

\* move.calculate_cost
CalculateCost ==
    /\ calls_left > 0
    /\ \E outcome \in Outcomes : cur' = Call("move", inventory, move, outcome)
    /\ prev' = cur
    /\ calls_left' = calls_left - 1
    /\ UNCHANGED <<inventory, move, doc, raw_text, parsed, ext, session>>

\* main.calculate_move_cost
CalculateMoveCost ==
    /\ calls_left > 0
    /\ \E outcome \in Outcomes : cur' = Call("main", inventory, move, outcome)
    /\ prev' = cur
    /\ calls_left' = calls_left - 1
    /\ UNCHANGED <<inventory, move, doc, raw_text, parsed, ext, session>>

Next == CalculateCost \/ CalculateMoveCost

Spec == Init /\ [][Next]_vars

(***************************************************************************)
(* Two calls in a row, the caller free to change the request in between.   *)
(***************************************************************************)
TwiceInventories ==
    {[has_volume |-> TRUE, volume |-> 800, has_special |-> FALSE, special |-> <<>>],
     [has_volume |-> TRUE, volume |-> 399, has_special |-> TRUE, special |-> <<"piano">>]}

TwiceMoves ==
    {[distance_km |-> 4500, origin_floor |-> 3, destination_floor |-> 2,
      has_elevator_origin |-> FALSE, has_elevator_destination |-> TRUE],
     [distance_km |-> 1250, origin_floor |-> 1, destination_floor |-> 1,
      has_elevator_origin |-> FALSE, has_elevator_destination |-> FALSE]}

InitTwice ==
    /\ inventory \in TwiceInventories
    /\ move \in TwiceMoves
    /\ calls_left = 2
    /\ cur = NoCall
    /\ prev = NoCall
    /\ doc = JErr
    /\ raw_text = NoText
    /\ parsed = NotParsed
    /\ ext = NoRun
    /\ session = NoSession

\* The caller turns to another request.
NewRequest ==
    /\ calls_left > 0
    /\ inventory' \in TwiceInventories
    /\ move' \in TwiceMoves
    /\ <<inventory', move'>> # <<inventory, move>>
    /\ UNCHANGED <<calls_left, cur, prev, doc, raw_text, parsed, ext, session>>

NextTwice == CalculateCost \/ CalculateMoveCost \/ NewRequest

SpecTwice == InitTwice /\ [][NextTwice]_vars

(***************************************************************************)
(* The parse step on its own: a JSON value, a text that carries it bare or *)
(* inside a fence, and the parse of that text.                             *)
(***************************************************************************)
Alphabet == {"a", Backtick}
Strings == UNION {[1..k -> Alphabet] : k \in 0..MaxStrLen}

JsonValues ==
    {JStr(str) : str \in Strings} \cup {JNum(n) : n \in {0, 15, 30, -250}} \cup AiDocs

InitParse ==
    /\ inventory = NoInventory
    /\ move = NoMove
    /\ calls_left = 0
    /\ cur = NoCall
    /\ prev = NoCall
    /\ doc \in JsonValues
    /\ raw_text = NoText
    /\ parsed = NotParsed
    /\ ext = NoRun
    /\ session = NoSession

\* The service answers with the bare serialization of doc.
RespondBare ==
    /\ raw_text = NoText
    /\ raw_text' = Serialize(doc)
    /\ UNCHANGED <<inventory, move, calls_left, cur, prev, doc, parsed,
                   ext, session>>

\* The service answers with the serialization of doc in a json fence.
RespondFenced ==
    /\ raw_text = NoText
    /\ raw_text' = FenceWrap(JsonTag, Serialize(doc))
    /\ UNCHANGED <<inventory, move, calls_left, cur, prev, doc, parsed,
                   ext, session>>

\* The service answers with the serialization of doc in a fence with no tag.
RespondPlainFence ==
    /\ raw_text = NoText
    /\ raw_text' = FenceWrap(<<>>, Serialize(doc))
    /\ UNCHANGED <<inventory, move, calls_left, cur, prev, doc, parsed,
                   ext, session>>

\* The parse step: response.text stripped of its fence and given to json.loads.
ParseText ==
    /\ raw_text # NoText
    /\ ~parsed.done
    /\ parsed' = [done |-> TRUE, value |-> ParseResponse(raw_text)]
    /\ UNCHANGED <<inventory, move, calls_left, cur, prev, doc, raw_text,
                   ext, session>>

NextParse == RespondBare \/ RespondFenced \/ RespondPlainFence \/ ParseText

SpecParse == InitParse /\ [][NextParse]_vars

(***************************************************************************)
(* Both calculators on one request whose 5% fee may fall on a half cent.   *)
(* move.py adds labor, truck base and fuel in that order; main.py adds the *)
(* truck base and the fuel first.  Float addition is not associative, so   *)
(* the two sums, and with them the side of the half cent each product      *)
(* falls on, can differ.                                                   *)
(***************************************************************************)
BothInventories ==
    {[has_volume |-> TRUE, volume |-> 399, has_special |-> FALSE, special |-> <<>>],
     [has_volume |-> TRUE, volume |-> -1650, has_special |-> FALSE, special |-> <<>>]}

BothMoves ==
    {[distance_km |-> 19260, origin_floor |-> 3, destination_floor |-> 2,
      has_elevator_origin |-> FALSE, has_elevator_destination |-> TRUE],
     [distance_km |-> 19260, origin_floor |-> 1, destination_floor |-> 1,
      has_elevator_origin |-> FALSE, has_elevator_destination |-> FALSE]}

InitBoth ==
    /\ inventory \in BothInventories
    /\ move \in BothMoves
    /\ calls_left = 2
    /\ cur = NoCall
    /\ prev = NoCall
    /\ doc = JErr
    /\ raw_text = NoText
    /\ parsed = NotParsed
    /\ ext = NoRun
    /\ session = NoSession

NextBoth == CalculateCost \/ CalculateMoveCost

SpecBoth == InitBoth /\ [][NextBoth]_vars

(***************************************************************************)
(* Stage 1 and the HTTP service.  ext is one request to the service, or    *)
(* one call of main.analyze_video: its inputs, the position of the         *)
(* handler (pc), the uploaded asset, the temporary file, and how it ended. *)
(***************************************************************************)
\* The states of an uploaded file, as the file service names them.
AssetStates == {"PROCESSING", "ACTIVE", "FAILED", "STATE_UNSPECIFIED"}

\* A local video below 20 MiB, or not.
Sizes == {"small", "large"}

Inv(items, volume, labels) ==
    JObj(<<ArrMember("items", items), NumMember("total_volume_cubic_feet", volume),
           ArrMember("needs_special_handling", labels)>>)

\* What the service may answer the inventory prompt with, as JSON values.
InventoryDocs ==
    {Inv(<<ItemText, ItemText>>, 8000, <<"piano">>),
     Inv(<<>>, 3990, <<>>),
     JObj(<<NumMember("total_volume_cubic_feet", 8000),
            ArrMember("needs_special_handling", <<>>)>>),
     JObj(<<ArrMember("items", <<ItemText>>),
            ArrMember("needs_special_handling", <<"piano">>)>>),
     JObj(<<ArrMember("items", <<ItemText>>),
            NumMember("total_volume_cubic_feet", 8000)>>),
     JNum(30)}

AnalysisOutcomes ==
    {[kind |-> "raise", text |-> <<>>]}
    \cup {[kind |-> "text", text |-> Serialize(d)] : d \in InventoryDocs}
    \cup {[kind |-> "text",
           text |-> FenceWrap(JsonTag, Serialize(Inv(<<ItemText, ItemText>>, 8000, <<"piano">>)))]}
    \cup {[kind |-> "text", text |-> NotJson]}

\* VideoAnalysisResponse(**inventory): a mapping with a list of items, a
\* number and a list of strings under the three field names.
ValidInventory(v) ==
    /\ v.t = "obj"
    /\ HasKey(v, "items") /\ Get(v, "items").t = "arr"
    /\ \A i \in 1..Len(Get(v, "items").s) : Get(v, "items").s[i] = ItemText
    /\ HasKey(v, "total_volume_cubic_feet") /\ Get(v, "total_volume_cubic_feet").t = "num"
    /\ HasKey(v, "needs_special_handling") /\ Get(v, "needs_special_handling").t = "arr"
    /\ \A i \in 1..Len(Get(v, "needs_special_handling").s) :
          Get(v, "needs_special_handling").s[i] # ItemText

\* The body of the 200 answer: the three fields of the response model.
ResponseBody(v) ==
    Inv(Get(v, "items").s, Get(v, "total_volume_cubic_feet").n,
        Get(v, "needs_special_handling").s)

\* The required fields of CostEstimationRequest a body may lack.
RequiredFields == {"items", "total_volume_cubic_feet", "distance_km"}

\* The inventory estimate_cost_endpoint hands to calculate_cost: the three
\* fields of the validated request, needs_special_handling [] by default.
RequestInventory(inv) == [inv EXCEPT !.has_special = TRUE]

Requests ==
    {[NoRun EXCEPT !.entry = "analyze", !.pc = "start", !.has_file = f, !.has_url = u,
                   !.size = IF f THEN sz ELSE "none"] :
        f \in BOOLEAN, u \in BOOLEAN, sz \in Sizes}
    \cup {[NoRun EXCEPT !.entry = "main", !.pc = "start", !.has_file = TRUE, !.size = sz] :
             sz \in Sizes}
    \cup {[NoRun EXCEPT !.entry = "main", !.pc = "start", !.has_url = TRUE]}
    \cup {[NoRun EXCEPT !.entry = "estimate", !.pc = "start", !.missing = m] :
             m \in RequiredFields \cup {"none"}}

InitService ==
    /\ ext \in Requests
    /\ inventory \in (IF ext.entry = "estimate" THEN TwiceInventories ELSE {NoInventory})
    /\ move \in (IF ext.entry = "estimate" THEN TwiceMoves ELSE {NoMove})
    /\ calls_left = 0
    /\ cur = NoCall
    /\ prev = NoCall
    /\ doc = JErr
    /\ raw_text = NoText
    /\ parsed = NotParsed
    /\ session = NoSession

\* An exception inside the extractor.  move.py wraps it in an HTTPException
\* of status 500, the finally clause of the endpoint unlinks the temporary
\* file and its except clause answers 500; main.py raises it again.
Abort(e, step) ==
    [e EXCEPT !.pc = "done", !.failed = step, !.outcome = "raised",
              !.status = IF e.entry = "main" THEN 0 ELSE 500,
              !.temp = IF e.temp = "exists" THEN "deleted" ELSE e.temp]

\* analyze_video_endpoint up to its try block: 400 when both inputs are
\* missing, else the URL when there is one, else the file.
CheckInputs ==
    /\ ext.entry = "analyze" /\ ext.pc = "start"
    /\ ext' = IF ~ext.has_file /\ ~ext.has_url
              THEN [ext EXCEPT !.pc = "done", !.failed = "input",
                               !.outcome = "raised", !.status = 400]
              ELSE IF ext.has_url THEN [ext EXCEPT !.pc = "generate", !.source = "url"]
              ELSE [ext EXCEPT !.pc = "copy", !.source = "file"]
    /\ UNCHANGED <<inventory, move, calls_left, cur, prev, doc, raw_text, parsed,
                   session>>

\* main.analyze_video: a path that starts with http is a URL.
StartMain ==
    /\ ext.entry = "main" /\ ext.pc = "start"
    /\ ext' = IF ext.has_url THEN [ext EXCEPT !.pc = "generate", !.source = "url"]
              ELSE [ext EXCEPT !.pc = "read", !.source = "file"]
    /\ UNCHANGED <<inventory, move, calls_left, cur, prev, doc, raw_text, parsed,
                   session>>

\* The with block of the endpoint: the temporary file is created with
\* delete=False and the upload copied into it.  When the copy raises, the
\* with block closes the file and the except clause of the endpoint answers
\* 500; the try block that unlinks has not been entered.
StageStep(e, copied) ==
    IF copied THEN [e EXCEPT !.temp = "exists", !.pc = "read"]
    ELSE [e EXCEPT !.temp = "exists", !.pc = "done", !.failed = "copy",
                   !.outcome = "raised", !.status = 500]

StageUpload ==
    /\ ext.pc = "copy"
    /\ \E copied \in BOOLEAN : ext' = StageStep(ext, copied)
    /\ UNCHANGED <<inventory, move, calls_left, cur, prev, doc, raw_text, parsed,
                   session>>

\* A video below 20 MiB: os.path.getsize and the read of its bytes.
ReadInline ==
    /\ ext.pc = "read" /\ ext.size = "small"
    /\ \E read \in BOOLEAN :
          ext' = IF read THEN [ext EXCEPT !.pc = "generate"] ELSE Abort(ext, "read")
    /\ UNCHANGED <<inventory, move, calls_left, cur, prev, doc, raw_text, parsed,
                   session>>

\* A video of 20 MiB or more: os.path.getsize and client.files.upload, which
\* raises or returns the file in some state.
UploadAsset ==
    /\ ext.pc = "read" /\ ext.size = "large"
    /\ \/ \E step \in {"read", "upload"} : ext' = Abort(ext, step)
       \/ \E state \in AssetStates : ext' = [ext EXCEPT !.asset = state, !.pc = "poll"]
    /\ UNCHANGED <<inventory, move, calls_left, cur, prev, doc, raw_text, parsed,
                   session>>

\* The body of the while loop, first half: the state is PROCESSING, sleep.
Sleep ==
    /\ ext.pc = "poll" /\ ext.asset = "PROCESSING"
    /\ ext' = [ext EXCEPT !.pc = "get"]
    /\ UNCHANGED <<inventory, move, calls_left, cur, prev, doc, raw_text, parsed,
                   session>>

\* The body of the while loop, second half: client.files.get, which raises
\* or returns the file in some state.
GetStatus ==
    /\ ext.pc = "get"
    /\ \/ ext' = Abort(ext, "status")
       \/ \E state \in AssetStates : ext' = [ext EXCEPT !.asset = state, !.pc = "poll"]
    /\ UNCHANGED <<inventory, move, calls_left, cur, prev, doc, raw_text, parsed,
                   session>>

\* The state the loop leaves with: FAILED raises, every other state goes on
\* to the generation request.
LeaveStep(e) ==
    IF e.asset = "FAILED" THEN Abort(e, "asset") ELSE [e EXCEPT !.pc = "generate"]

LeaveLoop ==
    /\ ext.pc = "poll" /\ ext.asset # "PROCESSING"
    /\ ext' = LeaveStep(ext)
    /\ UNCHANGED <<inventory, move, calls_left, cur, prev, doc, raw_text, parsed,
                   session>>

\* client.models.generate_content with the URL, the bytes or the uploaded
\* file: it raises, or answers with text.
GenerateStep(e, outcome) ==
    LET sent == [e EXCEPT !.requests = e.requests + 1,
                          !.attached = IF e.source = "url" THEN "url"
                                       ELSE IF e.size = "small" THEN "inline"
                                       ELSE e.asset]
    IN  IF outcome.kind = "raise" THEN Abort(sent, "generate")
        ELSE [sent EXCEPT !.text = outcome.text, !.pc = "parse"]

Generate ==
    /\ ext.pc = "generate"
    /\ \E outcome \in AnalysisOutcomes : ext' = GenerateStep(ext, outcome)
    /\ UNCHANGED <<inventory, move, calls_left, cur, prev, doc, raw_text, parsed,
                   session>>

\* Mutant: text that does not parse gives an empty inventory.
ParseStep_EmptyInventory(e) ==
    LET loaded == ParseResponse(e.text)
        unlinked == [e EXCEPT !.temp = IF e.temp = "exists" THEN "deleted" ELSE e.temp]
    IN  IF loaded.t = "err" \/ e.entry = "main"
        THEN [unlinked EXCEPT !.pc = "done", !.outcome = "returned",
                              !.status = IF e.entry = "main" THEN 0 ELSE 200,
                              !.result = IF loaded.t = "err" THEN Inv(<<>>, 0, <<>>)
                                         ELSE loaded]
        ELSE IF ValidInventory(loaded)
        THEN [unlinked EXCEPT !.pc = "done", !.outcome = "returned", !.status = 200,
                              !.result = ResponseBody(loaded)]
        ELSE [unlinked EXCEPT !.pc = "done", !.failed = "validate",
                              !.outcome = "raised", !.status = 500]

\* The parse of the text and what follows it.  main.analyze_video returns
\* the parsed value.  The endpoint unlinks the temporary file, builds the
\* response model from the value, and answers 200 or, when that raises, 500.
ParseStep(e) ==
    LET loaded == ParseResponse(e.text)
        unlinked == [e EXCEPT !.temp = IF e.temp = "exists" THEN "deleted" ELSE e.temp]
    IN  IF loaded.t = "err" THEN Abort(e, "parse")
        ELSE IF e.entry = "main"
        THEN [e EXCEPT !.pc = "done", !.outcome = "returned", !.result = loaded]
        ELSE IF ValidInventory(loaded)
        THEN [unlinked EXCEPT !.pc = "done", !.outcome = "returned", !.status = 200,
                              !.result = ResponseBody(loaded)]
        ELSE [unlinked EXCEPT !.pc = "done", !.failed = "validate",
                              !.outcome = "raised", !.status = 500]

ParseInventory ==
    /\ ext.pc = "parse"
    /\ ext' = ParseStep(ext)
    /\ UNCHANGED <<inventory, move, calls_left, cur, prev, doc, raw_text, parsed,
                   session>>

\* The answer to a body that fails the validation of CostEstimationRequest:
\* the framework answers before the handler runs.
ValidationStatus == 422

\* The try block of estimate_cost_endpoint once calculate_cost has ended as
\* call did: 200 with the estimate, 500 when it raised.
EstimateAnswer(e, call) ==
    [e EXCEPT !.pc = "done", !.outcome = call.status,
              !.failed = IF call.status = "returned" THEN "none" ELSE "pricing",
              !.status = IF call.status = "returned" THEN 200 ELSE 500]

\* estimate_cost_endpoint: the body validated against CostEstimationRequest,
\* then calculate_cost in the try block.
EstimateCostEndpoint ==
    /\ ext.entry = "estimate" /\ ext.pc = "start"
    /\ IF ext.missing # "none"
       THEN /\ ext' = [ext EXCEPT !.pc = "done", !.failed = "input",
                                  !.outcome = "raised", !.status = ValidationStatus]
            /\ UNCHANGED <<cur, prev>>
       ELSE /\ \E outcome \in Outcomes :
                  cur' = Call("move", RequestInventory(inventory), move, outcome)
            /\ prev' = cur
            /\ ext' = EstimateAnswer(ext, cur')
    /\ UNCHANGED <<inventory, move, calls_left, doc, raw_text, parsed,
                   session>>

NextService ==
    \/ CheckInputs \/ StartMain \/ StageUpload \/ ReadInline \/ UploadAsset
    \/ Sleep \/ GetStatus \/ LeaveLoop \/ Generate \/ ParseInventory
    \/ EstimateCostEndpoint

SpecService == InitService /\ [][NextService]_vars

\* The handler keeps running: a step of the polling loop it can take, it
\* takes.
SpecServiceFair ==
    /\ InitService
    /\ [][NextService]_vars
    /\ WF_vars(Sleep) /\ WF_vars(GetStatus) /\ WF_vars(LeaveLoop)

(***************************************************************************)
(* The frontend session: what st.session_state holds between the runs of   *)
(* the script, and the three buttons.  cost_of is the inventory the payload *)
(* of the held estimate was built from; last is what the last click did.   *)
(***************************************************************************)
\* The truth value of st.session_state.inventory: not None and not empty.
InventoryHeld(s) == s.has_inventory /\ s.inventory.t = "obj" /\ s.inventory.o # <<>>

\* The bodies analyze-video answers 200 with.
ResponseBodies == {ResponseBody(d) : d \in {v \in InventoryDocs : ValidInventory(v)}}

\* What comes back from a POST: a status with a body, 0 when the connection
\* fails.
AnalyzeResponses ==
    {[status |-> 200, body |-> b] : b \in ResponseBodies}
    \cup {[status |-> 500, body |-> JErr], [status |-> 0, body |-> JErr]}

\* The number widgets of Stage 2: whole kilometres, floors from 1.
SessionMoves ==
    {[distance_km |-> 4500, origin_floor |-> 3, destination_floor |-> 2,
      has_elevator_origin |-> FALSE, has_elevator_destination |-> TRUE],
     [distance_km |-> 500, origin_floor |-> 1, destination_floor |-> 1,
      has_elevator_origin |-> FALSE, has_elevator_destination |-> FALSE]}

\* The three inventory fields of the payload, as the estimator reads them.
InventoryOf(v) ==
    [has_volume |-> TRUE, volume |-> Get(v, "total_volume_cubic_feet").n \div 10,
     has_special |-> TRUE, special |-> Get(v, "needs_special_handling").s]

InitSession ==
    /\ session = NoSession
    /\ inventory = NoInventory
    /\ move = NoMove
    /\ calls_left = 0
    /\ cur = NoCall
    /\ prev = NoCall
    /\ doc = JErr
    /\ raw_text = NoText
    /\ parsed = NotParsed
    /\ ext = NoRun

\* The Analyze Video button: an error when no video is given; else the POST,
\* and on 200 the body becomes the inventory and the stage 2.
AnalyzeStep(s, given, response) ==
    IF ~given THEN [s EXCEPT !.last = "no_video"]
    ELSE IF response.status = 200
    THEN [s EXCEPT !.has_inventory = TRUE, !.inventory = response.body,
                   !.stage = 2, !.last = "analyzed"]
    ELSE [s EXCEPT !.last = "analyze_error"]

AnalyzeVideo ==
    /\ \E given \in BOOLEAN, response \in AnalyzeResponses :
          session' = AnalyzeStep(session, given, response)
    /\ UNCHANGED <<inventory, move, calls_left, cur, prev, doc, raw_text, parsed,
                   ext>>

\* The answer to the POST of the payload: on 200 the body becomes the cost
\* estimate; a connection that fails or another status shows an error.
EstimateStep(s, connected, call) ==
    IF connected /\ call.status = "returned"
    THEN [s EXCEPT !.has_cost = TRUE, !.cost_estimate = call.estimate,
                   !.cost_of = s.inventory, !.last = "estimated"]
    ELSE [s EXCEPT !.last = "estimate_error"]

\* The Calculate Moving Cost button, drawn when the stage is 2 and an
\* inventory is held: the payload from the held inventory and the widgets,
\* and the POST.
CalculateMovingCost ==
    /\ session.stage >= 2 /\ InventoryHeld(session)
    /\ \E mv \in SessionMoves, outcome \in Outcomes, connected \in BOOLEAN :
          session' =
             EstimateStep(session, connected,
                          Call("move", RequestInventory(InventoryOf(session.inventory)),
                               mv, outcome))
    /\ UNCHANGED <<inventory, move, calls_left, cur, prev, doc, raw_text, parsed,
                   ext>>

\* Mutant: the reset leaves the cost estimate in the session.
ResetSession_KeepCost(s) ==
    [s EXCEPT !.has_inventory = FALSE, !.inventory = JErr, !.stage = 1,
              !.last = "reset"]

\* The Start New Estimate button.
ResetSession(s) ==
    [s EXCEPT !.has_inventory = FALSE, !.inventory = JErr, !.has_cost = FALSE,
              !.cost_estimate = NoEstimate, !.cost_of = JErr, !.stage = 1,
              !.last = "reset"]

StartNewEstimate ==
    /\ InventoryHeld(session) \/ session.has_cost
    /\ session' = ResetSession(session)
    /\ UNCHANGED <<inventory, move, calls_left, cur, prev, doc, raw_text, parsed,
                   ext>>

NextSession == AnalyzeVideo \/ CalculateMovingCost \/ StartNewEstimate

SpecSession == InitSession /\ [][NextSession]_vars

(***************************************************************************)
(* The claims.                                                             *)
(***************************************************************************)
Called == cur.impl # "none"
Returned == cur.status = "returned"

\* C1, as stated: whatever the inference call does (raises, answers with text
\* that is not JSON, answers with JSON), the estimator returns a CostEstimate.
C1_AlwaysReturns == Called => Returned

\* The JSON values the pricing step can price: an object with a numeric
\* recommended_movers, a truck_type of the three tiers and a
\* complexity_hours_add that is absent or numeric.
Priceable(v) ==
    /\ v.t = "obj"
    /\ \E i \in 1..Len(v.o) : v.o[i].k = "recommended_movers"
    /\ \A i \in 1..Len(v.o) : v.o[i].k = "recommended_movers" => v.o[i].t = "num"
    /\ \E i \in 1..Len(v.o) : v.o[i].k = "truck_type"
    /\ \A i \in 1..Len(v.o) :
          v.o[i].k = "truck_type" =>
             v.o[i].t = "str" /\ v.o[i].s \in {TruckChars[tier] : tier \in TruckTiers}
    /\ \A i \in 1..Len(v.o) : v.o[i].k = "complexity_hours_add" => v.o[i].t = "num"

\* C1, amended: the estimator returns a CostEstimate whenever the inference
\* call raises or its text is not JSON; when the text parses as JSON it returns
\* one if the value is a priceable staffing object and fails otherwise.
C1_ReturnsUnlessMalformedJson ==
    Called =>
       LET loaded == JsonLoads(StripFence(cur.outcome.text))
       IN  /\ (cur.outcome.kind = "raise" \/ loaded.t = "err") => Returned
           /\ (cur.outcome.kind = "text" /\ loaded.t # "err") =>
                 (Returned <=> Priceable(loaded))

\* C1 witness: text that is not JSON, priced by the fallback.
C1_Witness ==
    /\ Called /\ cur.outcome.kind = "text" /\ cur.outcome.text = NotJson
    /\ cur.path = "fallback" /\ Returned

\* C2: total_cost is the sum of the six breakdown fields and cost_range is
\* total_cost times 0.9 and times 1.1, each rounded to the cent.
C2_TotalAndRange ==
    Returned =>
       LET e == cur.estimate
       IN  /\ e.total_cost = e.labor + e.truck + e.fuel + e.stairs_fee + e.materials + e.other
           /\ e.cost_min = Round(e.total_cost * 90, 100)
           /\ e.cost_max = Round(e.total_cost * 110, 100)

\* C2 witness: an estimate of the inference path with every component non-zero.
C2_Witness ==
    /\ Returned /\ cur.path = "inference"
    /\ cur.estimate.stairs_fee > 0 /\ cur.estimate.other > 0 /\ cur.estimate.fuel > 0
    /\ cur.estimate.labor > 0 /\ cur.estimate.materials > 0

\* C3: cost_range[0] <= total_cost <= cost_range[1] for every estimate returned.
C3_RangeBracketsTotal ==
    Returned =>
       /\ cur.estimate.cost_min <= cur.estimate.total_cost
       /\ cur.estimate.total_cost <= cur.estimate.cost_max

\* The staffing numbers the pricing step read from ai_estimate.
UsedMovers == cur.estimate.movers_needed
UsedComplexity ==
    LET idx == {i \in 1..Len(cur.ai.o) : cur.ai.o[i].k = "complexity_hours_add"}
    IN  IF idx = {} THEN 0 ELSE cur.ai.o[CHOOSE i \in idx : \A j \in idx : i >= j].n

\* C4: the pricing formulas (hours to the tenth, money to the cent), and the
\* worked example: volume 800, 45 km, floor 3 without and floor 2 with an
\* elevator, 3 movers, a medium truck, 1.5 extra hours: 1407.00 in
\* [1266.30, 1547.70].
C4_PricingFormulas ==
    Returned =>
       LET e == cur.estimate
           v == IF cur.inv.has_volume THEN cur.inv.volume ELSE 500
       IN  /\ e.estimated_hours = Round(40 * 20 + v + UsedComplexity * 20, 20)
           /\ e.labor = UsedMovers * e.estimated_hours * 35
           /\ e.truck = (IF e.truck_type = <<"s", "m", "a", "l", "l">> THEN 7500
                         ELSE IF e.truck_type = <<"m", "e", "d", "i", "u", "m">> THEN 12000
                         ELSE 18000)
           /\ e.fuel = Round(cur.mv.distance_km, 2)
           /\ e.materials = v * 20
           /\ e.other = Round(e.labor + e.truck + e.fuel, 20)
           /\ (/\ cur.inv.has_volume /\ v = 800 /\ cur.mv.distance_km = 4500
               /\ cur.mv.origin_floor = 3 /\ ~cur.mv.has_elevator_origin
               /\ cur.mv.destination_floor = 2 /\ cur.mv.has_elevator_destination
               /\ UsedMovers = 30 /\ e.truck = 12000 /\ UsedComplexity = 15
               /\ cur.path = "inference")
              => /\ e.total_cost = 140700
                 /\ e.cost_min = 126630
                 /\ e.cost_max = 154770

\* C4 witness: the worked example, priced.
C4_Witness ==
    /\ Returned /\ cur.path = "inference"
    /\ cur.inv.has_volume /\ cur.inv.volume = 800 /\ cur.mv.distance_km = 4500
    /\ cur.mv.origin_floor = 3 /\ ~cur.mv.has_elevator_origin
    /\ cur.mv.destination_floor = 2 /\ cur.mv.has_elevator_destination
    /\ UsedMovers = 30 /\ UsedComplexity = 15 /\ cur.estimate.truck = 12000
    /\ cur.estimate.estimated_hours = 95 /\ cur.estimate.labor = 99750

\* C5: when the inference call or the parse of its text fails, the staffing
\* priced is the fallback rule on the volume (500 when absent): 2, 3 or 4
\* movers below 400, below 800, from 800; small, medium or large below 400,
\* below 900, from 900; half an hour per special-handling label; no notes.
C5_FallbackRule ==
    (Called /\ (cur.outcome.kind = "raise" \/ JsonLoads(StripFence(cur.outcome.text)).t = "err")) =>
       LET v == IF cur.inv.has_volume THEN cur.inv.volume ELSE 500
           labels == IF cur.inv.has_special THEN Len(cur.inv.special) ELSE 0
           movers == IF v < 400 THEN 2 ELSE IF v < 800 THEN 3 ELSE 4
           truck == IF v < 400 THEN <<"s", "m", "a", "l", "l">>
                    ELSE IF v < 900 THEN <<"m", "e", "d", "i", "u", "m">>
                    ELSE <<"l", "a", "r", "g", "e">>
       IN  /\ cur.path = "fallback"
           /\ cur.ai = Staff(movers * 10, truck, labels * 5, <<>>)
           /\ Returned
           /\ cur.estimate.movers_needed = movers * 10
           /\ cur.estimate.truck_type = truck
           /\ cur.estimate.special_notes = <<>>
           /\ cur.estimate.estimated_hours = Round(800 + v + labels * 100, 20)

\* C5 witness: the call raised, the inventory has no volume field, and the
\* fallback priced 500 cubic feet.
C5_Witness ==
    /\ Called /\ cur.outcome.kind = "raise" /\ cur.path = "fallback"
    /\ ~cur.inv.has_volume /\ cur.estimate.movers_needed = 30
    /\ cur.estimate.materials = 10000

PianoAt850 ==
    /\ Called /\ cur.path = "fallback"
    /\ cur.inv.has_volume /\ cur.inv.volume = 850
    /\ cur.inv.has_special /\ cur.inv.special = <<"piano">>

\* C6, as stated: volume 850 with the one label piano falls back to 4 movers,
\* a large truck and 0.5 extra hours.
C6_LargeTruckAt850 ==
    PianoAt850 =>
       /\ cur.estimate.movers_needed = 40
       /\ cur.estimate.truck_type = <<"l", "a", "r", "g", "e">>
       /\ UsedComplexity = 5

\* C6, amended: volume 850 with the one label piano falls back to 4 movers, a
\* medium truck (850 is below 900) and 0.5 extra hours.
C6_MediumTruckAt850 ==
    PianoAt850 =>
       /\ cur.estimate.movers_needed = 40
       /\ cur.estimate.truck_type = <<"m", "e", "d", "i", "u", "m">>
       /\ cur.estimate.truck = 12000
       /\ UsedComplexity = 5

\* C6 witness: that inventory, priced by the fallback.
C6_Witness == PianoAt850 /\ Returned /\ cur.estimate.estimated_hours = 88

\* C7: stairs_fee is 25 per floor above the first on each side without an
\* elevator; a side on floor 1 or below, or with an elevator, adds nothing
\* whatever the other side is.
C7_StairsFee ==
    Returned =>
       LET m == cur.mv
           origin == IF m.has_elevator_origin \/ m.origin_floor <= 1
                     THEN 0 ELSE m.origin_floor - 1
           destination == IF m.has_elevator_destination \/ m.destination_floor <= 1
                          THEN 0 ELSE m.destination_floor - 1
       IN  cur.estimate.stairs_fee = 2500 * (origin + destination)

\* C7 witness: floor 3 without an elevator pays two floors while the other
\* side, floor 2 with an elevator, pays none.
C7_Witness ==
    /\ Returned /\ cur.mv.origin_floor = 3 /\ ~cur.mv.has_elevator_origin
    /\ cur.mv.destination_floor = 2 /\ cur.mv.has_elevator_destination
    /\ cur.estimate.stairs_fee = 5000

CostComponents == {"labor", "truck", "fuel", "stairs_fee", "materials", "other", "total_cost"}

UnknownTruck ==
    /\ Called /\ cur.ai.t = "obj"
    /\ \E i \in 1..Len(cur.ai.o) :
          /\ cur.ai.o[i].k = "truck_type"
          /\ cur.ai.o[i].s \notin {TruckChars[tier] : tier \in TruckTiers}

\* C8: a truck_type outside the three tiers fails the call on the truck-tier
\* lookup before any cost component, labor included, is computed.
C8_FailsBeforeAnyCost ==
    UnknownTruck =>
       /\ cur.status = "raised"
       /\ cur.error = "KeyError"
       /\ cur.computed \cap CostComponents = {}

\* Two calls of one estimator on one request.
SameRequest == Called /\ prev.impl = cur.impl /\ cur.inv = prev.inv /\ cur.mv = prev.mv

C10_RoundTrip == parsed.done => parsed.value = doc

\* C13: every CostEstimate returned for a request that passes the validation
\* of CostEstimationRequest (a volume is given, of any sign) has labor, truck,
\* fuel, materials, stairs_fee and other at least 0 and estimated_hours
\* above 0.
C13_NonNegativeComponents ==
    (Returned /\ cur.inv.has_volume) =>
       /\ cur.estimate.labor >= 0
       /\ cur.estimate.truck >= 0
       /\ cur.estimate.fuel >= 0
       /\ cur.estimate.materials >= 0
       /\ cur.estimate.stairs_fee >= 0
       /\ cur.estimate.other >= 0
       /\ cur.estimate.estimated_hours > 0

\* C17: the staffing the pricing step consumes, from the inference service
\* or from the fallback rule, has recommended_movers a whole number from 2 to
\* 6, truck_type one of the three tiers and complexity_hours_add at least 0;
\* so movers_needed of every returned estimate is from 2 to 6.
C17_StaffingInRange ==
    Called =>
       /\ cur.ai.t = "obj"
       /\ \A i \in 1..Len(cur.ai.o) :
             LET m == cur.ai.o[i]
             IN  /\ m.k = "recommended_movers" =>
                       (m.t = "num" /\ m.n \in {20, 30, 40, 50, 60})
                 /\ m.k = "truck_type" =>
                       (m.t = "str" /\ m.s \in {<<"s", "m", "a", "l", "l">>,
                                                <<"m", "e", "d", "i", "u", "m">>,
                                                <<"l", "a", "r", "g", "e">>})
                 /\ m.k = "complexity_hours_add" => (m.t = "num" /\ m.n >= 0)
       /\ Returned => cur.estimate.movers_needed \in {20, 30, 40, 50, 60}

\* The inference call of Stage 2 answered with a JSON object that lacks one
\* of the four fields of the staffing record.
LacksStaffingField ==
    /\ Called /\ cur.outcome.kind = "text"
    /\ LET loaded == JsonLoads(StripFence(cur.outcome.text))
       IN  /\ loaded.t = "obj"
           /\ \E k \in {"recommended_movers", "truck_type", "complexity_hours_add",
                         "special_notes"} :
                 \A i \in 1..Len(loaded.o) : loaded.o[i].k # k

\* C18: when the text of the inference service parses as JSON but lacks a
\* field of the staffing record, the estimator fails with an error and puts
\* no default in the place of the missing field.
C18_MissingFieldFails ==
    LacksStaffingField => (cur.status = "raised" /\ cur.estimate = NoEstimate)

(***************************************************************************)
(* Stage 1 and the service.                                                *)
(***************************************************************************)
Extracting == ext.entry \in {"analyze", "main"}
Finished == ext.pc = "done"

\* C11: Stage 1 neither retries nor falls back.  A run of the extractor
\* issues the generation request at most once, and a run in which the read or
\* upload of the video, the generation call or the parse of the returned text
\* fails ends in an error to the caller, with no inventory.
C11_NoRetryNoFallback ==
    Extracting =>
       /\ ext.requests <= 1
       /\ (ext.failed \in {"read", "upload", "generate", "parse"}) =>
             /\ Finished
             /\ ext.outcome = "raised"
             /\ ext.result = JErr
             /\ ext.status # 200
       /\ (Finished /\ ext.requests = 1 /\ ext.text # NoText
              /\ JsonLoads(StripFence(ext.text)).t = "err") =>
             (ext.outcome = "raised" /\ ext.result = JErr /\ ext.failed = "parse")
       /\ (Finished /\ ext.requests = 1 /\ ext.text = NoText) =>
             (ext.outcome = "raised" /\ ext.result = JErr /\ ext.failed = "generate")

\* C11 witness: one generation request, answered with text that is not JSON,
\* and the run ended in an error.
C11_Witness ==
    /\ Extracting /\ Finished /\ ext.requests = 1 /\ ext.text = NotJson
    /\ ext.outcome = "raised" /\ ext.failed = "parse"

InternalFailures ==
    {"copy", "read", "upload", "status", "asset", "generate", "parse", "validate",
     "pricing"}

\* C12: the status of the answer.  analyze-video answers 400 exactly when
\* neither a video file nor a youtube_url is supplied; every internal failure
\* of analyze-video or estimate-cost is answered with 500; a request that
\* lacks a required input is answered with 400 and with no other status.
C12_StatusMapping ==
    (Finished /\ ext.entry \in {"analyze", "estimate"}) =>
       /\ ext.entry = "analyze" => (ext.status = 400 <=> (~ext.has_file /\ ~ext.has_url))
       /\ ext.failed \in InternalFailures => ext.status = 500
       /\ ext.failed = "input" => ext.status = 400

LargeVideo == Extracting /\ ext.source = "file" /\ ext.size = "large"

\* C14: for a local video of 20 MiB or more the generation request is issued
\* only with an uploaded file last seen in the state ACTIVE.  A file seen in
\* the state FAILED ends the extraction with an error, and a file last seen
\* in any other state than ACTIVE is never attached to a request.
C14_OnlyActiveAttached ==
    LargeVideo =>
       /\ ext.requests > 0 => ext.attached = "ACTIVE"
       /\ (Finished /\ ext.asset = "FAILED") =>
             (ext.outcome = "raised" /\ ext.requests = 0)

\* C15: the polling loop for a large local video is bounded: a run that
\* enters it leaves it after finitely many status checks, for the generation
\* request or with an error, even when the file stays in the state
\* PROCESSING.
C15_PollingTerminates ==
    (LargeVideo /\ ext.pc = "poll") ~> (ext.pc \in {"generate", "done"})

\* C16: when a request to analyze-video has finished, the temporary file it
\* created for the upload has been deleted, whichever way it finished:
\* analysis done, analysis failed, or the copy of the upload failed.
C16_TempFileDeleted ==
    (ext.entry = "analyze" /\ Finished) => ext.temp # "exists"

(***************************************************************************)
(* The frontend session.                                                   *)
(***************************************************************************)
HoldsInventory ==
    session.has_inventory /\ session.inventory.t = "obj" /\ session.inventory.o # <<>>

\* C19: after any sequence of clicks (analyze, done or failed; calculate
\* cost, done or failed; start new estimate) the stage is 2 exactly when a
\* non-empty inventory is held, a cost estimate is held only with an inventory
\* and stage 2, an estimate-cost request has been sent only with an inventory
\* held, and Start New Estimate leaves no inventory, no cost estimate and
\* stage 1.
C19_SessionInvariant ==
    /\ session.stage \in {1, 2}
    /\ session.stage = 2 <=> HoldsInventory
    /\ session.has_cost => (HoldsInventory /\ session.stage = 2)
    /\ session.last \in {"estimated", "estimate_error"} => HoldsInventory
    /\ session.last = "reset" =>
          /\ ~session.has_inventory /\ session.inventory = JErr
          /\ ~session.has_cost /\ session.cost_estimate = NoEstimate
          /\ session.stage = 1

\* C19 witness: a cost estimate is held, and a later analysis has failed.
C19_Witness ==
    /\ session.has_cost /\ session.stage = 2 /\ HoldsInventory
    /\ session.last = "analyze_error"

\* C21, as stated: a cost estimate held in the session is the answer to an
\* estimate-cost request whose payload was built from the inventory the
\* session holds now; an analysis that replaces the inventory leaves no
\* estimate of the previous inventory.
C21_EstimateOfHeldInventory ==
    session.has_cost => (session.has_inventory /\ session.cost_of = session.inventory)

(***************************************************************************)
(* The two calculators side by side.                                       *)
(***************************************************************************)
SameCallOtherCalculator ==
    /\ Called /\ prev.impl # "none" /\ prev.impl # cur.impl
    /\ cur.inv = prev.inv /\ cur.mv = prev.mv /\ cur.outcome = prev.outcome

\* C20, as stated: on the same inventory, move parameters and outcome of the
\* inference call, main.calculate_move_cost and move.calculate_cost both fail
\* or both return the same CostEstimate, field by field, the 'other' fee and
\* the total_cost included.
C20_CalculatorsEquivalent ==
    SameCallOtherCalculator =>
        /\ cur.status = prev.status
        /\ cur.status = "returned" => cur.estimate = prev.estimate

====
